---- MODULE Spec2Model ----
(***************************************************************************)
(* Verification model of wms/models/datasets/base.py (class Dataset).      *)
(*                                                                         *)
(* Strings are sequences of one-character strings, so that the character   *)
(* filters, path joins and glob matches of the code are computed rather    *)
(* than assumed.  The module holds one specification per group of          *)
(* operations; the variables a specification does not use stay at their    *)
(* idle value.                                                             *)
(***************************************************************************)
EXTENDS Integers, Sequences, FiniteSets, Bags, TLC

VARIABLES
    times,        \* nearest_time: time_var[:] , the time array of the dataset
    time,         \* nearest_time: date2num(time), in half units
    ntResult,     \* nearest_time: what the call returned or raised
    name,         \* Dataset.name of the dataset whose cache key is computed
    safeName,     \* value read from Dataset.safe_filename
    topoFile,     \* value read from Dataset.topology_file
    datasets,     \* the Dataset rows (their unique names)
    fs,           \* the paths of the files on disk
    last,         \* the cache operation that completed last
    layers,       \* the Layer table, a bag of rows
    nc,           \* process_layers: the resource opened by the last call
    selfId,       \* process_layers: id of the dataset of the last call
    contentType,  \* empty_response: the content_type argument
    request,      \* empty_response: request.GET
    response      \* empty_response: what the call returned or raised

timeVars  == <<times, time, ntResult>>
nameVars  == <<name, safeName, topoFile>>
cacheVars == <<datasets, fs, last>>
layerVars == <<layers, nc, selfId>>
respVars  == <<contentType, request, response>>
vars == <<times, time, ntResult, name, safeName, topoFile, datasets, fs, last,
          layers, nc, selfId, contentType, request, response>>

None == "None"
Pending == [kind |-> "pending"]

\* ------------------------------------------------------------------------
\* Bounds
MaxLen == 3        \* longest time array
MaxTime == 3       \* largest numeric time in an array
MaxNameLen == 3    \* longest Dataset.name whose cache key is computed
MaxDsNameLen == 2  \* longest name of a Dataset row of the cache model
NumDatasets == 2   \* number of Dataset rows of the cache model
MaxVal == 1        \* largest value of a valid_* attribute
MaxDim == 4        \* largest width and height of a request

\* ------------------------------------------------------------------------
\* Idle values of the variables a specification does not use
TimeIdle  == times = <<>> /\ time = 0 /\ ntResult = Pending
NameIdle  == name = <<>> /\ safeName = <<>> /\ topoFile = <<>>
NoOp == [op |-> "none", ds |-> <<>>, force |-> FALSE, wrote |-> {},
         removed |-> {}]
CacheIdle == datasets = {} /\ fs = {} /\ last = NoOp
NoResource == [opens |-> FALSE, variables |-> <<>>]
LayerIdle == layers = EmptyBag /\ nc = NoResource /\ selfId = 0
RespIdle  == contentType = None /\ request = <<>> /\ response = Pending

\* ========================================================================
\* nearest_time
\* ========================================================================

\* numeric times are kept in half units so that round() has work to do
Halves == 2

\* Python 2 round(): nearest integer, halves away from zero
Round(h) ==
    IF h >= 0 THEN (h + 1) \div Halves ELSE -((1 - h) \div Halves)

\* the arrays time_var[:] can hold: ascending, possibly empty
IsAscending(a) == \A i \in 1..(Len(a) - 1) : a[i] <= a[i + 1]
TimeArrays ==
    {a \in UNION {[1..n -> 0..MaxTime] : n \in 0..MaxLen} : IsAscending(a)}
TimeInputs == (-Halves)..(Halves * (MaxTime + 1))

\* bisect.bisect_right(a, x), 0-based: the loop of the standard library
RECURSIVE BisectLoop(_, _, _, _)
BisectLoop(a, x, lo, hi) ==
    IF lo < hi
    THEN LET mid == (lo + hi) \div 2
         IN  IF x < a[mid + 1]
             THEN BisectLoop(a, x, lo, mid)
             ELSE BisectLoop(a, x, mid + 1, hi)
    ELSE lo
bisect_right(a, x) == BisectLoop(a, x, 0, Len(a))

\* times[i] of a 0-based array: negative indexes count from the end
InRange(a, i) == -Len(a) <= i /\ i < Len(a)
GetItem(a, i) == IF i >= 0 THEN a[i + 1] ELSE a[Len(a) + i + 1]

\* variant without the correction of the index
CorrectIndex_Uncorrected(a, time_index) == time_index

\* lines 231-234: the index after the try/except IndexError
CorrectIndex(a, time_index) ==
    IF InRange(a, time_index) THEN time_index ELSE time_index - 1

nearest_time(a, t) ==
    LET num_date == Round(t)
        time_index == CorrectIndex(a, bisect_right(a, num_date))
    IN  IF InRange(a, time_index)
        THEN [kind |-> "return", index |-> time_index,
              value |-> GetItem(a, time_index)]
        ELSE [kind |-> "IndexError"]

InitTime ==
    /\ times \in TimeArrays
    /\ time \in TimeInputs
    /\ ntResult = Pending
    /\ NameIdle /\ CacheIdle /\ LayerIdle /\ RespIdle

NearestTime ==
    /\ ntResult = Pending
    /\ ntResult' = nearest_time(times, time)
    /\ UNCHANGED <<times, time, nameVars, cacheVars, layerVars, respVars>>

NextTime == NearestTime
SpecTime == InitTime /\ [][NextTime]_vars

Abs(x) == IF x < 0 THEN -x ELSE x

\* C1: the returned element is a nearest one: no element of the array is
\* nearer to the rounded requested time than the returned value.
C1_ReturnsClosest ==
    (ntResult.kind # "pending" /\ Len(times) > 0) =>
        /\ ntResult.kind = "return"
        /\ \A j \in 1..Len(times) :
              Abs(times[j] - Round(time)) >= Abs(ntResult.value - Round(time))

\* C2: for a non-empty array the returned index is within 0..len-1, the
\* returned value is the element at that index, and a bisection index past
\* the end has been corrected to the last index.
C2_IndexInBounds ==
    (ntResult.kind # "pending" /\ Len(times) > 0) =>
        /\ ntResult.kind = "return"
        /\ ntResult.index \in 0..(Len(times) - 1)
        /\ ntResult.value = times[ntResult.index + 1]
        /\ (bisect_right(times, Round(time)) >= Len(times)
               => ntResult.index = Len(times) - 1)

\* C2 witness: a request at or after the last element, answered with the
\* corrected index
C2_Witness ==
    /\ ntResult.kind = "return"
    /\ Len(times) > 1
    /\ Round(time) >= times[Len(times)]
    /\ ntResult.index = Len(times) - 1

\* ========================================================================
\* safe_filename, topology_file and the other cache paths
\* ========================================================================

Letters == {"a", "b", "c", "z", "A", "Z"}
Digits == {"0", "7", "9"}
Whitespace == {" ", "\t", "\n"}

\* unicode.isalnum() of one character
isalnum(c) == c \in Letters \cup Digits

\* unicode.rstrip(): drop the trailing whitespace
RECURSIVE rstrip(_)
rstrip(s) ==
    IF s # <<>> /\ s[Len(s)] \in Whitespace
    THEN rstrip(SubSeq(s, 1, Len(s) - 1))
    ELSE s

\* variant that keeps the underscores of the name
isalnum_or_underscore(c) == isalnum(c) \/ c = "_"
safe_filename_underscore(n) == rstrip(SelectSeq(n, isalnum_or_underscore))

\* "".join(c for c in self.name if c.isalnum()).rstrip()
safe_filename(n) == rstrip(SelectSeq(n, isalnum))

\* posixpath.join(a, b)
PathJoin(a, b) ==
    IF b # <<>> /\ b[1] = "/" THEN b
    ELSE IF a = <<>> \/ a[Len(a)] = "/" THEN a \o b
    ELSE a \o <<"/">> \o b

\* template.format(arg) for a template with "{}" replacement fields: the
\* first field takes the argument
RECURSIVE Format(_, _)
Format(template, arg) ==
    IF Len(template) < 2 THEN template
    ELSE IF template[1] = "{" /\ template[2] = "}"
         THEN arg \o SubSeq(template, 3, Len(template))
         ELSE <<template[1]>> \o Format(Tail(template), arg)

\* settings.TOPOLOGY_PATH
TOPOLOGY_PATH == <<"/", "t">>

topology_file(n) ==
    PathJoin(TOPOLOGY_PATH, Format(<<"{", "}", ".", "n", "c">>, safe_filename(n)))
domain_file(n) ==
    PathJoin(TOPOLOGY_PATH,
             Format(<<"{", "}", ".", "d", "o", "m", "a", "i", "n">>,
                    safe_filename(n)))
node_tree_root(n) ==
    Format(PathJoin(TOPOLOGY_PATH, <<"{", "}", ".", "t", "r", "e", "e">>),
           safe_filename(n))
node_tree_data_file(n) ==
    Format(<<"{", "}", ".", "d", "a", "t">>, node_tree_root(n))
node_tree_index_file(n) ==
    Format(<<"{", "}", ".", "i", "d", "x">>, node_tree_root(n))
cell_tree_file(n) ==
    Format(PathJoin(TOPOLOGY_PATH, <<"{", "}", ".", "c", "e", "l", "l", "s">>),
           safe_filename(n))

\* the names a cache key is computed for
NameChars == {"a", "7", "_", " ", "/"}
Names == UNION {[1..n -> NameChars] : n \in 0..MaxNameLen}

InitName ==
    /\ name \in Names
    /\ safeName = <<>>
    /\ topoFile = <<>>
    /\ TimeIdle /\ CacheIdle /\ LayerIdle /\ RespIdle

\* reading the two properties of a dataset
ReadCacheKey ==
    /\ topoFile = <<>>
    /\ safeName' = safe_filename(name)
    /\ topoFile' = topology_file(name)
    /\ UNCHANGED <<name, timeVars, cacheVars, layerVars, respVars>>

NextName == ReadCacheKey
SpecName == InitName /\ [][NextName]_vars

\* the positions of the alphanumeric characters of a name
AlnumPositions(n) == {i \in 1..Len(n) : isalnum(n[i])}
\* the k-th smallest element of a set of positions
Kth(P, k) == CHOOSE p \in P : Cardinality({q \in P : q <= p}) = k

\* C5: safe_filename is exactly the subsequence of the alphanumeric
\* characters of the name in their order, sanitizing it again changes
\* nothing, and topology_file is TOPOLOGY_PATH/<safe_filename>.nc.
C5_CacheKey ==
    topoFile # <<>> =>
        /\ Len(safeName) = Cardinality(AlnumPositions(name))
        /\ \A k \in 1..Len(safeName) :
              safeName[k] = name[Kth(AlnumPositions(name), k)]
        /\ safe_filename(safeName) = safeName
        /\ topoFile = TOPOLOGY_PATH \o <<"/">> \o safeName \o <<".", "n", "c">>

\* C5 witness: a name with a special character between two alphanumeric
\* ones has been sanitized
C5_Witness ==
    /\ topoFile # <<>>
    /\ Len(name) = 3
    /\ isalnum(name[1]) /\ ~isalnum(name[2]) /\ isalnum(name[3])
    /\ safeName = <<name[1], name[3]>>

\* ========================================================================
\* has_cache, update_cache, clear_cache
\* ========================================================================

\* the position of the last "/" of a path, 0 when it has none
LastSlash(p) ==
    LET S == {i \in 1..Len(p) : p[i] = "/"}
    IN  IF S = {} THEN 0 ELSE CHOOSE i \in S : \A j \in S : j <= i

\* posixpath.split(p): head without its trailing slashes (unless it is all
\* slashes) and tail
RECURSIVE StripSlashes(_)
StripSlashes(h) ==
    IF h # <<>> /\ h[Len(h)] = "/" /\ (\E i \in 1..Len(h) : h[i] # "/")
    THEN StripSlashes(SubSeq(h, 1, Len(h) - 1))
    ELSE h
Dirname(p) == StripSlashes(SubSeq(p, 1, LastSlash(p)))
Basename(p) == SubSeq(p, LastSlash(p) + 1, Len(p))

\* os.listdir(dirname)
listdir(files, dirname) == {Basename(p) : p \in {q \in files : Dirname(q) = dirname}}

\* fnmatch.fnmatch(s, pat) for patterns of literals, "*" and "?"
RECURSIVE fnmatch(_, _)
fnmatch(s, pat) ==
    IF pat = <<>> THEN s = <<>>
    ELSE IF pat[1] = "*"
         THEN \/ fnmatch(s, Tail(pat))
              \/ (s # <<>> /\ fnmatch(Tail(s), pat))
    ELSE IF s = <<>> THEN FALSE
    ELSE (pat[1] = "?" \/ pat[1] = s[1]) /\ fnmatch(Tail(s), Tail(pat))

\* glob.glob1(dirname, pattern): hidden names match only a pattern that
\* starts with a dot
glob1(files, dirname, pattern) ==
    {f \in listdir(files, dirname) :
        /\ (pattern[1] # "." => f[1] # ".")
        /\ fnmatch(f, pattern)}

\* glob.glob(pathname) for a pathname whose last component has a wildcard
glob(files, pathname) ==
    {PathJoin(Dirname(pathname), f) :
        f \in glob1(files, Dirname(pathname), Basename(pathname))}

\* variant that looks for the domain file
has_cache_domain(files, n) == domain_file(n) \in files

\* os.path.exists(self.topology_file)
has_cache(files, n) == topology_file(n) \in files

\* the files besides the topology file that hold the cache of a dataset
AuxFiles(n) ==
    {domain_file(n), node_tree_data_file(n), node_tree_index_file(n),
     cell_tree_file(n)}
CacheFiles(n) == {topology_file(n)} \cup AuxFiles(n)

\* the names the Dataset rows can have
DsChars == {"a", "_"}
DatasetNames == UNION {[1..n -> DsChars] : n \in 1..MaxDsNameLen}
Range(f) == {f[i] : i \in DOMAIN f}
Injective(f) == \A i, j \in DOMAIN f : f[i] = f[j] => i = j

\* Dataset.name is unique
InitCache ==
    /\ datasets \in {Range(f) : f \in {g \in [1..NumDatasets -> DatasetNames] :
                                           Injective(g)}}
    /\ fs = {}
    /\ last = NoOp
    /\ TimeIdle /\ NameIdle /\ LayerIdle /\ RespIdle

\* update_cache of the dataset subclasses: writes the topology file, and
\* with it the other cache files when full, unless the cache exists and
\* force is off
UpdateCache(d, force, full) ==
    LET written == IF force \/ ~has_cache(fs, d)
                   THEN {topology_file(d)} \cup (IF full THEN AuxFiles(d) ELSE {})
                   ELSE {}
    IN  /\ fs' = fs \cup written
        /\ last' = [op |-> "update_cache", ds |-> d, force |-> force,
                    wrote |-> written, removed |-> {}]
        /\ UNCHANGED <<datasets, timeVars, nameVars, layerVars, respVars>>

ClearCache(d) ==
    LET cache_file_list ==
            glob(fs, PathJoin(TOPOLOGY_PATH, safe_filename(d) \o <<"*">>))
    IN  /\ fs' = fs \ cache_file_list
        /\ last' = [op |-> "clear_cache", ds |-> d, force |-> FALSE,
                    wrote |-> {}, removed |-> cache_file_list]
        /\ UNCHANGED <<datasets, timeVars, nameVars, layerVars, respVars>>

NextCache ==
    \/ \E d \in datasets, force \in BOOLEAN, full \in BOOLEAN :
          UpdateCache(d, force, full)
    \/ \E d \in datasets : ClearCache(d)
SpecCache == InitCache /\ [][NextCache]_vars

StartsWith(s, prefix) ==
    Len(s) >= Len(prefix) /\ SubSeq(s, 1, Len(prefix)) = prefix

\* C3: after clear_cache no file of TOPOLOGY_PATH has a name that starts
\* with the safe_filename of the dataset, and has_cache is False.
C3_ClearedCacheIsGone ==
    last.op = "clear_cache" =>
        /\ \A f \in listdir(fs, TOPOLOGY_PATH) :
              ~StartsWith(f, safe_filename(last.ds))
        /\ ~has_cache(fs, last.ds)

\* C9: clear_cache of one dataset removes no cache file of a dataset with
\* another name, so the has_cache of the other dataset is as before.
C9_ClearLeavesOthers ==
    last.op = "clear_cache" =>
        \A e \in datasets \ {last.ds} :
            /\ CacheFiles(e) \cap last.removed = {}
            /\ has_cache(fs, e) = has_cache(fs \cup last.removed, e)

NoValue == <<>>
Vals == 0..MaxVal
Optional == {NoValue} \cup {<<v>> : v \in Vals}
\* valid_range holds the smallest and the largest valid value
Ranges == {r \in [1..2 -> Vals] : r[1] < r[2]}

\* hasattr(nc_var, attribute)
hasattr(nc_var, attribute) == nc_var[attribute] # NoValue

\* the attributes of a netCDF variable that process_layers reads for the
\* defaults of its layer
Attrs ==
    [valid_range : {NoValue} \cup Ranges, valid_min : Optional,
     valid_max : Optional]
NoAttrs == [valid_range |-> NoValue, valid_min |-> NoValue, valid_max |-> NoValue]

\* the resources netcdf4_dataset() can return: None, or a dataset with a
\* coordinate variable that has no range attributes and possibly a data
\* variable
VarNames == {"temp", "time"}
Resources ==
    {NoResource} \cup
    {[opens |-> TRUE, variables |-> f] :
        f \in {g \in UNION {[S -> Attrs] : S \in SUBSET VarNames} :
                  "time" \in DOMAIN g /\ g["time"] = NoAttrs}}

\* the ids of the Dataset rows: the dataset that is processed and another
DatasetIds == {1, 2}

\* the rows of Layer.objects.filter(dataset_id=.., var_name=..)
Matching(table, dataset_id, var_name) ==
    {l \in BagToSet(table) : l.dataset_id = dataset_id /\ l.var_name = var_name}
RECURSIVE CountRows(_, _)
CountRows(table, rows) ==
    IF rows = {} THEN 0
    ELSE LET l == CHOOSE x \in rows : TRUE
         IN  CopiesIn(l, table) + CountRows(table, rows \ {l})
CountMatching(table, dataset_id, var_name) ==
    CountRows(table, Matching(table, dataset_id, var_name))

\* variant that creates a row without looking for one
get_or_create_always(table, dataset_id, var_name) ==
    LET fresh == [dataset_id |-> dataset_id, var_name |-> var_name,
                  default_min |-> NoValue, default_max |-> NoValue]
    IN  [raised |-> FALSE, table |-> table (+) SetToBag({fresh}), row |-> fresh]

\* Layer.objects.get_or_create(dataset_id=.., var_name=..): the table after
\* the call and the row it returned, or MultipleObjectsReturned
get_or_create(table, dataset_id, var_name) ==
    LET n == CountMatching(table, dataset_id, var_name)
        fresh == [dataset_id |-> dataset_id, var_name |-> var_name,
                  default_min |-> NoValue, default_max |-> NoValue]
    IN  IF n = 0
        THEN [raised |-> FALSE, table |-> table (+) SetToBag({fresh}), row |-> fresh]
        ELSE IF n = 1
        THEN [raised |-> FALSE, table |-> table,
              row |-> CHOOSE l \in Matching(table, dataset_id, var_name) : TRUE]
        ELSE [raised |-> TRUE, table |-> table, row |-> fresh]

\* variant with the attributes applied in the opposite order
SetDefaults_RangeLast(l, nc_var) ==
    LET l1 == IF hasattr(nc_var, "valid_max")
              THEN [l EXCEPT !.default_max = nc_var.valid_max]
              ELSE l
        l2 == IF hasattr(nc_var, "valid_min")
              THEN [l1 EXCEPT !.default_min = nc_var.valid_min]
              ELSE l1
    IN  IF hasattr(nc_var, "valid_range")
        THEN [l2 EXCEPT !.default_min = <<nc_var.valid_range[1]>>,
                        !.default_max =
                            <<nc_var.valid_range[Len(nc_var.valid_range)]>>]
        ELSE l2

\* lines 181-188: the defaults of the layer of one variable
SetDefaults(l, nc_var) ==
    LET l1 == IF hasattr(nc_var, "valid_range")
              THEN [l EXCEPT !.default_min = <<nc_var.valid_range[1]>>,
                             !.default_max =
                                 <<nc_var.valid_range[Len(nc_var.valid_range)]>>]
              ELSE l
        l2 == IF hasattr(nc_var, "valid_min")
              THEN [l1 EXCEPT !.default_min = nc_var.valid_min]
              ELSE l1
    IN  IF hasattr(nc_var, "valid_max")
        THEN [l2 EXCEPT !.default_max = nc_var.valid_max]
        ELSE l2

\* l.save(): the row of the table is replaced by its new value
Save(table, old, new) == (table (-) SetToBag({old})) (+) SetToBag({new})

\* the loop of lines 177-202 over the variables still to process; an
\* exception of get_or_create leaves the loop
RECURSIVE LayerLoop(_, _, _, _)
LayerLoop(table, dataset_id, variables, todo) ==
    IF todo = {} THEN table
    ELSE LET v == CHOOSE x \in todo : TRUE
             got == get_or_create(table, dataset_id, v)
         IN  IF got.raised THEN table
             ELSE LayerLoop(Save(got.table, got.row,
                                 SetDefaults(got.row, variables[v])),
                            dataset_id, variables, todo \ {v})

InitLayers ==
    /\ layers = EmptyBag
    /\ nc = NoResource
    /\ selfId = 0
    /\ TimeIdle /\ NameIdle /\ CacheIdle /\ RespIdle

\* process_layers of dataset id when netcdf4_dataset() returns resource
ProcessLayers(id, resource) ==
    /\ selfId' = id
    /\ nc' = resource
    /\ layers' = IF resource.opens
                 THEN LayerLoop(layers, id, resource.variables,
                                DOMAIN resource.variables)
                 ELSE layers
    /\ UNCHANGED <<timeVars, nameVars, cacheVars, respVars>>

NextLayers == \E id \in DatasetIds, resource \in Resources : ProcessLayers(id, resource)
SpecLayers == InitLayers /\ [][NextLayers]_vars

\* C7: after process_layers on a dataset whose resource opens there is
\* exactly one Layer for each variable of the resource and that dataset,
\* and no dataset and variable name ever has a second Layer.
C7_OneLayerPerVariable ==
    /\ (selfId # 0 /\ nc.opens) =>
          \A v \in DOMAIN nc.variables : CountMatching(layers, selfId, v) = 1
    /\ \A id \in DatasetIds, v \in VarNames : CountMatching(layers, id, v) <= 1

\* C7 witness: a later call found the layer an earlier call had created
\* and given defaults, while the other dataset has its own layer
C7_Witness ==
    /\ selfId = 1 /\ nc.opens
    /\ "temp" \in DOMAIN nc.variables
    /\ nc.variables["temp"] = NoAttrs
    /\ \E l \in Matching(layers, 1, "temp") : l.default_min # NoValue
    /\ CountMatching(layers, 2, "temp") = 1

\* the layer of a dataset and variable, a fresh one when there is none
LayerOf(table, id, v) ==
    IF Matching(table, id, v) = {}
    THEN [dataset_id |-> id, var_name |-> v, default_min |-> NoValue,
          default_max |-> NoValue]
    ELSE CHOOSE l \in Matching(table, id, v) : TRUE

\* C8: for every variable of the processed resource default_min is
\* valid_min when present, else valid_range[0] when present, else what it
\* was; default_max is valid_max when present, else the last element of
\* valid_range when present, else what it was.
C8_MinMaxPrecedence ==
    [][(selfId' # 0 /\ nc'.opens) =>
          \A v \in DOMAIN nc'.variables :
              LET a == nc'.variables[v]
                  old == LayerOf(layers, selfId', v)
                  new == LayerOf(layers', selfId', v)
              IN  /\ new.default_min =
                        IF a.valid_min # NoValue THEN a.valid_min
                        ELSE IF a.valid_range # NoValue
                             THEN <<a.valid_range[1]>>
                             ELSE old.default_min
                  /\ new.default_max =
                        IF a.valid_max # NoValue THEN a.valid_max
                        ELSE IF a.valid_range # NoValue
                             THEN <<a.valid_range[Len(a.valid_range)]>>
                             ELSE old.default_max]_vars

\* C8 witness: a variable with valid_range and a different valid_min but no
\* valid_max got valid_min and the last element of valid_range
C8_Witness ==
    /\ selfId # 0 /\ nc.opens
    /\ "temp" \in DOMAIN nc.variables
    /\ LET a == nc.variables["temp"]
           l == LayerOf(layers, selfId, "temp")
       IN  /\ Len(a.valid_range) > 1
           /\ a.valid_min # NoValue /\ a.valid_min # <<a.valid_range[1]>>
           /\ a.valid_max = NoValue
           /\ l.default_min = a.valid_min
           /\ l.default_max = <<a.valid_range[Len(a.valid_range)]>>

\* ========================================================================
\* empty_response
\* ========================================================================

ContentTypes == {None, "", "image/png", "image/jpeg", "text/xml"}
Dims == 1..MaxDim
\* request.GET: the parameters of the request that are present
Requests == UNION {[S -> Dims] : S \in SUBSET {"width", "height"}}

\* content_type or 'image/png'
OrDefault(content_type) ==
    IF content_type = None \/ content_type = "" THEN "image/png" ELSE content_type

empty_response(req, content_type) ==
    LET ct == OrDefault(content_type)
    IN  IF ct = "image/png"
        THEN IF "width" \notin DOMAIN req \/ "height" \notin DOMAIN req
             THEN [kind |-> "KeyError"]
             ELSE [kind |-> "response", content_type |-> ct,
                   width |-> req["width"], height |-> req["height"]]
        ELSE [kind |-> "UnboundLocalError"]

InitResp ==
    /\ contentType \in ContentTypes
    /\ request \in Requests
    /\ response = Pending
    /\ TimeIdle /\ NameIdle /\ CacheIdle /\ LayerIdle

EmptyResponse ==
    /\ response = Pending
    /\ response' = empty_response(request, contentType)
    /\ UNCHANGED <<contentType, request, timeVars, nameVars, cacheVars, layerVars>>

NextResp == EmptyResponse
SpecResp == InitResp /\ [][NextResp]_vars

\* C6: for every content_type, None included, empty_response of a request
\* that carries width and height returns a response object.
C6_AlwaysResponds ==
    (response.kind # "pending" /\ DOMAIN request = {"width", "height"}) =>
        response.kind = "response"

====
